---- MODULE Spec2Model ----
(***************************************************************************)
(* A model of kpwrite.py: one run of write_entry on a KDBX database (load  *)
(* the tree, resolve or create the destination group, create the entry,    *)
(* write the container), plus a direct call of get_time_element.           *)
(*                                                                         *)
(* A tree is a sequence of element records.  Element 1 is the root group   *)
(* (/KeePassFile/Root/Group).  Every other element names its parent; the   *)
(* children of an element, in insertion order, are the elements naming it, *)
(* by increasing index (append() puts a new element last).                 *)
(***************************************************************************)
EXTENDS Integers, Sequences, FiniteSets, TLC

\* ---------------------------------------------------------------- bounds
MaxInitGroups == 3      \* groups below the root in the loaded database
MaxPathLen == 3         \* segments of the destination path
MaxDraws == 1           \* values uuid1() is followed through in one generation
PoolSize == 3           \* distinct values uuid1() may return
MaxClock == 2           \* distinct values of datetime.now()
NumChunks == 2          \* pieces in which the container reaches the file

\* The interpreter's recursion limit, kept above the longest path so that a
\* walk that reaches it has taken more steps than the path has segments.
RecursionLimit == MaxPathLen + 2

Names == {"A", "B"}
Pool == 1..PoolSize
Clock == 1..MaxClock
None == 0

RECURSIVE SeqsUpTo(_, _)
SeqsUpTo(S, n) ==
    IF n = 0 THEN {<<>>}
    ELSE LET shorter == SeqsUpTo(S, n - 1)
         IN  shorter \cup {Append(q, x) : q \in {r \in shorter : Len(r) = n - 1}, x \in S}

Paths == SeqsUpTo(Names, MaxPathLen)

VARIABLES
    files,                    \* path -> [exists, data]
    pc,                       \* position of the run
    et,                       \* kdb.tree, the tree in memory
    group_destination_name,   \* the destination path, as its segments
    destination_group,        \* write_entry's destination_group (None or an element)
    group_path,               \* argument of the current create_group frame
    depth,                    \* number of create_group frames on the stack
    gen,                      \* the last call of generate_unique_uuid
    error,                    \* the exception that ended the run, "" if none
    build                     \* the last direct call of get_time_element

vars == <<files, pc, et, group_destination_name, destination_group,
          group_path, depth, gen, error, build>>

\* ------------------------------------------------------------- encodings
\* base64.b64encode(bytes): the stored text of an identifier
b64encode(v) == <<"b64", v>>
b64decode(text) == text[2]
\* str(x) of an lxml element: "<Element UUID at 0x...>", one text per element
str_element(i) == <<"<Element UUID at>", i>>
\* datetime.strftime(t, '%Y-%m-%dT%H:%M:%SZ')
strftime(t) == <<"%Y-%m-%dT%H:%M:%SZ", t>>
\* str(bool)
str_bool(b) == IF b THEN "True" ELSE "False"

\* ------------------------------------------------------------------ tree
Group(parent, name, uuid_text) ==
    [tag |-> "Group", parent |-> parent, Name |-> name, UUID |-> uuid_text]

IsGroup(t, i) == t[i].tag = "Group"
GroupsOf(t) == {i \in 1..Len(t) : IsGroup(t, i)}
EntriesOf(t) == {i \in 1..Len(t) : t[i].tag = "Entry"}
EntriesIn(t, g) == {i \in EntriesOf(t) : t[i].parent = g}

\* etree.xpath('//UUID'): the UUID elements, one per group and entry
uuid_elements(t) == 1..Len(t)

\* The databases libkeepass.open can hand over: a root group and up to
\* MaxInitGroups groups below it, identifiers pairwise different.
InitTrees ==
    UNION { { [i \in 1..(n + 1) |->
                 IF i = 1 THEN Group(None, "Root", b64encode(1))
                 ELSE Group(par[i], nm[i], b64encode(i))] :
              par \in {p \in [2..(n + 1) -> 1..n] : \A i \in 2..(n + 1) : p[i] < i},
              nm \in [2..(n + 1) -> Names] } :
            n \in 0..MaxInitGroups }

\* Document order of two elements of the same depth.
RECURSIVE DocLess(_, _, _)
DocLess(t, a, b) ==
    IF a = b THEN FALSE
    ELSE IF t[a].parent = t[b].parent THEN a < b
    ELSE DocLess(t, t[a].parent, t[b].parent)

\* --------------------------------------------------------- the container
\* kdb.write_to: the container of a tree, as the pieces that reach the file
Serialize(t) == [i \in 1..NumChunks |-> <<i, t>>]
\* libkeepass.open: the tree of a complete container
Open(data) == data[1][2]

AbsentFile == [exists |-> FALSE, data |-> <<>>]
FileOf(t) == [exists |-> TRUE, data |-> Serialize(t)]

kdbx_file == "db.kdbx"
OutPath == "db.kdbxnew.kdbx"

\* ------------------------------------------------------- path resolution
\* group_name.split('/'): '' splits into one empty segment
split(path) == IF path = <<>> THEN <<"">> ELSE path

\* os.path.split(group_path): (parent_path, group_name)
os_path_split(path) ==
    IF path = <<>> THEN <<<<>>, "">>
    ELSE <<SubSeq(path, 1, Len(path) - 1), path[Len(path)]>>

\* The node-set of '/KeePassFile/Root/Group' followed by one step
\* '/Group/Name[text()="s"]/..' per segment: every group below a node of the
\* set whose Name is the segment.
RECURSIVE xpath(_, _, _)
xpath(t, nodes, segs) ==
    IF segs = <<>> THEN nodes
    ELSE xpath(t,
               {c \in GroupsOf(t) : t[c].parent \in nodes /\ t[c].Name = Head(segs)},
               Tail(segs))

\* result[0]: the first node of the node-set in document order
first_of(t, result) == CHOOSE n \in result : \A m \in result : ~DocLess(t, m, n)

\* A resolver that follows only the first matching group at each level.
RECURSIVE descend_first(_, _, _)
descend_first(t, node, segs) ==
    IF segs = <<>> THEN node
    ELSE LET match == {c \in GroupsOf(t) : t[c].parent = node /\ t[c].Name = Head(segs)}
         IN  IF match = {} THEN None
             ELSE descend_first(t, CHOOSE c \in match : \A d \in match : c <= d, Tail(segs))

find_group_by_path_first_branch(t, group_name) == descend_first(t, 1, split(group_name))

\* A resolver that only knows single names.
find_group_by_path_single_name(t, group_name) ==
    IF Len(group_name) > 1 THEN None
    ELSE LET result == xpath(t, {1}, split(group_name))
         IN  IF Cardinality(result) > 0 THEN first_of(t, result) ELSE None

find_group_by_path(t, group_name) ==
    LET result == xpath(t, {1}, split(group_name))
    IN  IF Cardinality(result) > 0 THEN first_of(t, result) ELSE None

\* len(element): its child elements (UUID and Name, then groups and entries)
element_len(t, e) == 2 + Cardinality({c \in 1..Len(t) : t[c].parent = e})
\* the truth value of what find_group_by_path returned
truthy(t, e) == e # None /\ element_len(t, e) > 0

\* -------------------------------------------------------------- builders
NoReturn == <<"no return", None>>

\* uuids = [str(x) for x in etree.xpath('//UUID')]
uuids(t) == {str_element(x) : x \in uuid_elements(t)}

\* The while loop, followed through the values uuid1() returns in turn.
RECURSIVE generate_unique_uuid(_, _)
generate_unique_uuid(t, draws) ==
    IF draws = <<>> THEN NoReturn
    ELSE LET rand_uuid == b64encode(Head(draws))
         IN  IF rand_uuid \notin uuids(t) THEN rand_uuid
             ELSE generate_unique_uuid(t, Tail(draws))

Draws == [1..MaxDraws -> Pool]
InUse(t) == {b64decode(t[i].UUID) : i \in 1..Len(t)}
NoGen == [called |-> FALSE, collided |-> FALSE, ret |-> NoReturn]
GenOf(t, draws) ==
    [called |-> TRUE,
     collided |-> \A i \in 1..Len(draws) : draws[i] \in InUse(t),
     ret |-> generate_unique_uuid(t, draws)]

get_string_element(key, value) ==
    [Key |-> key, Value |-> [text |-> value, attrib |-> <<>>]]

get_password_element(password) ==
    [Key |-> "Password",
     Value |-> [text |-> password,
                attrib |-> [Protected |-> "False", ProtectedValue |-> "???"]]]

\* get_time_element: the Times element, or the exception it raises
get_time_element(expires, expiry_time, now) ==
    IF expiry_time # None
    THEN [raised |-> "TypeError", Times |-> <<>>]
    ELSE LET now_str == strftime(now)
             expiry_time_str == now_str
         IN  [raised |-> "",
              Times |-> [CreationTime |-> now_str,
                         LastModificationTime |-> now_str,
                         LastAccessTime |-> now_str,
                         ExpiryTime |-> expiry_time_str,
                         Expires |-> str_bool(expires),
                         LocationChanged |-> now_str]]

\* the Entry element create_entry appends to group (no URL, no Notes)
entry_element(group, entry_name, entry_username, entry_password, uuid_text, times) ==
    [tag |-> "Entry", parent |-> group,
     Title |-> get_string_element("Title", entry_name),
     UUID |-> uuid_text,
     UserName |-> get_string_element("UserName", entry_username),
     Password |-> get_password_element(entry_password),
     Times |-> times]

NoBuild == [called |-> FALSE, expires |-> FALSE, expiry_time |-> None,
            result |-> [raised |-> "", Times |-> <<>>]]

\* ---------------------------------------------------------------- states
Init ==
    /\ \E t \in InitTrees, old \in {AbsentFile, FileOf(<<Group(None, "Root", b64encode(1))>>)} :
           files = [p \in {kdbx_file, OutPath} |-> IF p = kdbx_file THEN FileOf(t) ELSE old]
    /\ pc = "start"
    /\ et = <<>>
    /\ group_destination_name = <<>>
    /\ destination_group = None
    /\ group_path = <<>>
    /\ depth = 0
    /\ gen = NoGen
    /\ error = ""
    /\ build = NoBuild

\* write_entry, lines 244-254: load the tree and look the destination up
write_entry(path) ==
    /\ pc = "start"
    /\ LET tree == Open(files[kdbx_file].data)
           found == find_group_by_path(tree, path)
       IN  /\ et' = tree
           /\ group_destination_name' = path
           /\ destination_group' = found
           /\ IF ~truthy(tree, found)
              THEN pc' = "create_group" /\ group_path' = path /\ depth' = 1
              ELSE pc' = "create_entry" /\ UNCHANGED <<group_path, depth>>
    /\ UNCHANGED <<files, gen, error, build>>

\* A create_group that puts a group whose parent is missing into the root
\* group before it walks up.
create_group_eager ==
    /\ pc = "create_group"
    /\ LET parent_path == os_path_split(group_path)[1]
           group_name == os_path_split(group_path)[2]
           parent_group == find_group_by_path(et, parent_path)
       IN  IF truthy(et, parent_group)
           THEN \E draws \in Draws :
                  /\ generate_unique_uuid(et, draws) # NoReturn
                  /\ gen' = GenOf(et, draws)
                  /\ et' = Append(et, Group(parent_group, group_name, gen'.ret))
                  /\ destination_group' = Len(et')
                  /\ pc' = "create_entry"
                  /\ UNCHANGED <<group_path, depth, error>>
           ELSE /\ et' = IF group_name # ""
                         THEN Append(et, Group(1, group_name, b64encode(1)))
                         ELSE et
                /\ IF depth < RecursionLimit
                   THEN /\ group_path' = parent_path
                        /\ depth' = depth + 1
                        /\ UNCHANGED <<pc, error>>
                   ELSE /\ pc' = "failed"
                        /\ error' = "RecursionError"
                        /\ UNCHANGED <<group_path, depth>>
                /\ UNCHANGED <<destination_group, gen>>
    /\ UNCHANGED <<files, group_destination_name, build>>

\* One frame of create_group, lines 196-210.
create_group ==
    /\ pc = "create_group"
    /\ LET parent_path == os_path_split(group_path)[1]
           group_name == os_path_split(group_path)[2]
           parent_group == find_group_by_path(et, parent_path)
       IN  IF truthy(et, parent_group)
           THEN \E draws \in Draws :
                  /\ generate_unique_uuid(et, draws) # NoReturn
                  /\ gen' = GenOf(et, draws)
                  /\ et' = Append(et, Group(parent_group, group_name, gen'.ret))
                  /\ destination_group' = Len(et')
                  /\ pc' = "create_entry"
                  /\ UNCHANGED <<group_path, depth, error>>
           ELSE /\ IF depth < RecursionLimit
                   THEN /\ group_path' = parent_path
                        /\ depth' = depth + 1
                        /\ UNCHANGED <<pc, error>>
                   ELSE /\ pc' = "failed"
                        /\ error' = "RecursionError"
                        /\ UNCHANGED <<group_path, depth>>
                /\ UNCHANGED <<et, destination_group, gen>>
    /\ UNCHANGED <<files, group_destination_name, build>>

\* create_entry, lines 213-234, as write_entry calls it (line 255)
create_entry ==
    /\ pc = "create_entry"
    /\ \E draws \in Draws, now \in Clock :
          /\ generate_unique_uuid(et, draws) # NoReturn
          /\ gen' = GenOf(et, draws)
          /\ LET times == get_time_element(FALSE, None, now)
             IN  et' = Append(et, entry_element(destination_group, "Gmail", "alice",
                                                "secret", gen'.ret, times.Times))
    /\ pc' = "open"
    /\ UNCHANGED <<files, group_destination_name, destination_group, group_path,
                   depth, error, build>>

\* open(kdbx_file + 'new.kdbx', 'w+'), line 258: the file is created or emptied
open_outstream ==
    /\ pc = "open"
    /\ files' = [files EXCEPT ![OutPath] = [exists |-> TRUE, data |-> <<>>]]
    /\ pc' = "write_to"
    /\ UNCHANGED <<et, group_destination_name, destination_group, group_path,
                   depth, gen, error, build>>

\* kdb.write_to(outstream), line 259: the next piece reaches the file
write_to ==
    /\ pc = "write_to"
    /\ LET data == files[OutPath].data
           more == Append(data, Serialize(et)[Len(data) + 1])
       IN  /\ files' = [files EXCEPT ![OutPath] = [exists |-> TRUE, data |-> more]]
           /\ pc' = IF Len(more) = NumChunks THEN "done" ELSE "write_to"
    /\ UNCHANGED <<et, group_destination_name, destination_group, group_path,
                   depth, gen, error, build>>

\* A direct call of get_time_element(expires, expiry_time)
call_get_time_element(expires, expiry_time, now) ==
    /\ pc = "start"
    /\ build' = [called |-> TRUE, expires |-> expires, expiry_time |-> expiry_time,
                 result |-> get_time_element(expires, expiry_time, now)]
    /\ pc' = "returned"
    /\ UNCHANGED <<files, et, group_destination_name, destination_group, group_path,
                   depth, gen, error>>

Next ==
    \/ \E path \in Paths : write_entry(path)
    \/ create_group
    \/ create_entry
    \/ open_outstream
    \/ write_to
    \/ \E expires \in BOOLEAN, expiry_time \in {None} \cup Clock, now \in Clock :
          call_get_time_element(expires, expiry_time, now)

Spec == Init /\ [][Next]_vars

\* ------------------------------------------------------------ properties
\* The tree as libkeepass.open loaded it (the database file is never written).
TreeBefore == Open(files[kdbx_file].data)
InRun == pc \notin {"start", "returned"}
RootTree == <<Group(None, "Root", b64encode(1))>>

\* Some chain of groups below node carries the names of segs, in order.
RECURSIVE PathExists(_, _, _)
PathExists(t, node, segs) ==
    \/ segs = <<>>
    \/ \E c \in GroupsOf(t) :
          /\ t[c].parent = node
          /\ t[c].Name = Head(segs)
          /\ PathExists(t, c, Tail(segs))

\* The groups that end a chain below node carrying the names of segs.
RECURSIVE ChainEnds(_, _, _)
ChainEnds(t, node, segs) ==
    IF segs = <<>> THEN {node}
    ELSE UNION { ChainEnds(t, c, Tail(segs)) :
                 c \in {d \in GroupsOf(t) : t[d].parent = node /\ t[d].Name = Head(segs)} }

\* The number of leading segments of path that exist in t.
ExistingLen(t, path) ==
    CHOOSE j \in 0..Len(path) :
        /\ PathExists(t, 1, SubSeq(path, 1, j))
        /\ \A i \in (j + 1)..Len(path) : ~PathExists(t, 1, SubSeq(path, 1, i))

\* C1: no two nodes of the tree (groups or entries) carry the same identifier.
C1_UniqueIdentifiers ==
    InRun => \A i, j \in 1..Len(et) :
                i # j => b64decode(et[i].UUID) # b64decode(et[j].UUID)

\* C2: once the entry is created or the run has failed, a path whose last
\* k >= 1 segments were missing has got exactly k new groups, one per missing
\* segment, nested in path order under the deepest existing ancestor, and the
\* new entry hangs in the group of the last segment.
C2_CreatesMissingChain ==
    LET path == group_destination_name
        before == Len(TreeBefore)
        j == ExistingLen(TreeBefore, path)
        k == Len(path) - j
    IN  (pc \in {"open", "write_to", "done", "failed"} /\ k >= 1) =>
            /\ pc # "failed"
            /\ Len(et) = before + k + 1
            /\ \A i \in 1..k :
                  /\ et[before + i].tag = "Group"
                  /\ et[before + i].Name = path[j + i]
                  /\ i > 1 => et[before + i].parent = before + i - 1
            /\ et[before + 1].parent \in ChainEnds(TreeBefore, 1, SubSeq(path, 1, j))
            /\ et[Len(et)].tag = "Entry"
            /\ et[Len(et)].parent = before + k

\* C3: a run on a path whose every segment exists creates no group (for a
\* path of at least one segment the create-group branch is not entered), and
\* the path resolves to the same group before and after the run's changes,
\* which is the group the entry goes to.
C3_ExistingPathCreatesNothing ==
    LET path == group_destination_name
    IN  (InRun /\ PathExists(TreeBefore, 1, path)) =>
            /\ GroupsOf(et) = GroupsOf(TreeBefore)
            /\ find_group_by_path(et, path) = find_group_by_path(TreeBefore, path)
            /\ path # <<>> =>
                  /\ pc # "create_group"
                  /\ depth = 0
                  /\ destination_group = find_group_by_path(TreeBefore, path)
                  /\ \A e \in EntriesOf(et) \ EntriesOf(TreeBefore) :
                        et[e].parent = destination_group

\* a run on an existing path of two segments or more has written its entry
C3_Witness ==
    /\ pc = "done"
    /\ Len(group_destination_name) >= 2
    /\ PathExists(TreeBefore, 1, group_destination_name)
    /\ EntriesOf(et) # {}

C5_ExhaustionFails ==
    (gen.called /\ gen.collided) => gen.ret = <<"IdentifierExhausted", None>>

\* C6: a call of get_time_element returns a Times block whose expiry is the
\* explicit expiry when one is supplied and the creation time otherwise.
C6_ExpiryAsSupplied ==
    build.called =>
        /\ build.result.raised = ""
        /\ build.result.Times.ExpiryTime =
              IF build.expiry_time # None THEN strftime(build.expiry_time)
              ELSE build.result.Times.CreationTime

\* C7: in every state of a run, each file is its complete original (the
\* database; at the output path nothing or an earlier complete container) or
\* the complete new container, never a partly written file.
C7_TargetNeverPartial ==
    /\ files[kdbx_file].exists /\ Len(files[kdbx_file].data) = NumChunks
    /\ files[OutPath] \in {AbsentFile, FileOf(RootTree), FileOf(et)}

\* C8: the password value of every created entry carries exactly one
\* protection marker.
C8_OneProtectionMarker ==
    \A e \in EntriesOf(et) : Cardinality(DOMAIN et[e].Password.Value.attrib) = 1

\* The lookup of line 247 has just returned and nothing is created yet.
JustResolved ==
    /\ pc \in {"create_group", "create_entry"}
    /\ depth <= 1
    /\ et = TreeBefore

\* C9 as claimed: resolution follows the first group of a matching name at
\* each level and reports not found at the first level without a match.
C9_SingleBranch ==
    JustResolved =>
        destination_group = descend_first(TreeBefore, 1, split(group_destination_name))

\* C9 as amended: resolution returns the first, in document order, of all
\* groups that end a chain of matching names from the root, and finds
\* nothing only when there is no such chain.
C9_FirstOfAllBranches ==
    LET ends == ChainEnds(TreeBefore, 1, split(group_destination_name))
    IN  JustResolved =>
            /\ (ends = {}) <=> (destination_group = None)
            /\ ends # {} =>
                  /\ destination_group \in ends
                  /\ \A m \in ends : ~DocLess(TreeBefore, m, destination_group)

\* the first group named A has no B, a later sibling named A has one, and
\* A/B resolved to the B below the later one
C9_Witness ==
    /\ JustResolved
    /\ group_destination_name = <<"A", "B">>
    /\ pc = "create_entry"
    /\ \E a1, a2 \in GroupsOf(TreeBefore) :
          /\ a1 < a2
          /\ TreeBefore[a1].parent = 1 /\ TreeBefore[a1].Name = "A"
          /\ TreeBefore[a2].parent = 1 /\ TreeBefore[a2].Name = "A"
          /\ \A c \in GroupsOf(TreeBefore) : TreeBefore[c].parent = a1 => TreeBefore[c].Name # "B"
          /\ \A a0 \in GroupsOf(TreeBefore) :
                (TreeBefore[a0].parent = 1 /\ TreeBefore[a0].Name = "A") => a1 <= a0
          /\ TreeBefore[destination_group].parent = a2

\* C10: the walk of create_group up the parent paths takes at most as many
\* steps as the path has segments, and the run does not end in the walk.
C10_WalkReachesAncestor ==
    /\ (pc = "create_group" /\ Len(group_destination_name) >= 1) =>
          depth <= Len(group_destination_name)
    /\ error # "RecursionError"
====
